---- MODULE Spec2Model ----
(***************************************************************************)
(* The interactive client of the video-analytics application, one part per *)
(* page script.                                                            *)
(*                                                                         *)
(* Stream Readiness Controller of src/app/static/js/stream.js: the         *)
(* start / stop / reload handlers, the generation token startToken, the    *)
(* playlist polling loop waitForHlsReady and the player handoff.           *)
(* Every handler invocation takes one slot of ops.  A handler runs         *)
(* atomically between two suspension points (an awaited fetch or the       *)
(* awaited poll timer), as the single-threaded event loop runs it.         *)
(* Strings are sequences of one-character strings.                         *)
(* Not modelled: the log (appendLog), the status pane (setStatus) and the  *)
(* periodic pollStatus, which only overwrites safeLastStatus.              *)
(*                                                                         *)
(* Frame-Synchronized Overlay Renderer of src/app/static/js/video.js: the  *)
(* detection timeline, the nearest-entry lookup findNearestIndex, the      *)
(* render loop and the handlers that redraw the overlay canvas.            *)
(*                                                                         *)
(* ROI Polygon Editor of src/app/static/js/photo.js: the pointer handlers, *)
(* the hit test, the coordinate transforms and the submission.             *)
(*                                                                         *)
(* The three scripts share no state: Spec and FairSpec run the stream      *)
(* page, VideoSpec the video page and PhotoSpec the photo page.            *)
(***************************************************************************)
EXTENDS Integers, Sequences, FiniteSets, TLC

VARIABLES
    startToken,      \* stream.js:30   let startToken = 0
    hls,             \* stream.js:13   let hls = null (the hls.js instance, by its source url)
    videoSrc,        \* the media source the <video> element shows
    hlsLive,         \* hls.js instances created and not destroyed
    badge,           \* the #hlsBadge element as written by setHlsBadge
    safeLastStatus,  \* stream.js:171  let safeLastStatus = {}
    ops,             \* the handler invocations and where each is suspended
    nOps,            \* number of handler invocations so far
    playerKind       \* what the browser can play: "native", "hlsjs" or "none"

vars == <<startToken, hls, videoSrc, hlsLive, badge, safeLastStatus, ops, nOps, playerKind>>

\* The Frame-Synchronized Overlay Renderer of src/app/static/js/video.js
VARIABLES
    currentFile,       \* video.js:18   let currentFile = null
    timeline,          \* video.js:19   let timeline = []
    overlayVisible,    \* video.js:23   let overlayVisible = true
    lastIdx,           \* video.js:33   let lastIdx = -1
    looping,           \* video.js:34-35  a tick is requested (rafId or vfcId is set)
    playing,           \* the <video> element is playing
    videoTime,         \* video.currentTime
    videoReady,        \* video.videoWidth and video.videoHeight are non-zero
    canvas,            \* the boxes the overlay canvas shows (NoBoxes: none)
    detecting,         \* detectVideo invocations awaiting their response
    btnDetectDisabled, \* btnDetect.disabled
    lastHandler,       \* history: the handler that ran last and whether it called drawBoxes
    hiddenCanvas       \* history: the canvas as it was when the overlay was last hidden

videoVars == <<currentFile, timeline, overlayVisible, lastIdx, looping, playing, videoTime,
               videoReady, canvas, detecting, btnDetectDisabled, lastHandler, hiddenCanvas>>

\* The ROI Polygon Editor and the submission of src/app/static/js/photo.js
VARIABLES
    file,              \* photo.js:31   let file = null
    imgW,              \* photo.js:32   let imgW = 0
    imgH,              \* photo.js:33   let imgH = 0
    boxes,             \* photo.js:35   let boxes = [] (by the file they were detected in)
    roiPts,            \* photo.js:36   let roiPts = []
    roiEdit,           \* photo.js:37   let roiEdit = false
    dragIdx,           \* photo.js:38   let dragIdx = -1
    roiEnabledChecked, \* els.roiEnabled.checked
    imgLoading,        \* the image els.img is loading (NoFile: none)
    requests,          \* the detect requests awaiting their response
    lastForm           \* history: the form data of the submission just made

photoVars == <<file, imgW, imgH, boxes, roiPts, roiEdit, dragIdx, roiEnabledChecked,
               imgLoading, requests, lastForm>>

\* each page runs its own script: the handlers of one leave the others' state alone
notStream == <<videoVars, photoVars>>
notVideo == <<vars, photoVars>>
notPhoto == <<vars, videoVars>>

----------------------------------------------------------------------------
(* Bounds of the model *)

\* handler invocations (start, stop, reload clicks) in one behaviour
MaxOps == 2
\* timeoutMs the callers pass to waitForHlsReady; the source passes 25000,
\* the model a shorter budget so that a wait has few polls
TimeoutMs == 1500
\* the time that passes in one step of the clock
TickMs == 500

(* Program constants *)
MinSegments == 2
PollMs == 500

----------------------------------------------------------------------------
(* Strings *)

Null == <<>>

IsSpace(c) == c \in {" ", "\t", "\n", "\r"}

RECURSIVE TrimStart(_)
TrimStart(s) == IF s # <<>> /\ IsSpace(Head(s)) THEN TrimStart(Tail(s)) ELSE s

RECURSIVE TrimEnd(_)
TrimEnd(s) ==
    IF s # <<>> /\ IsSpace(s[Len(s)]) THEN TrimEnd(SubSeq(s, 1, Len(s) - 1)) ELSE s

\* String.prototype.trim
Trim(s) == TrimEnd(TrimStart(s))

StartsWith(s, p) == Len(s) >= Len(p) /\ SubSeq(s, 1, Len(p)) = p
EndsWith(s, p) == Len(s) >= Len(p) /\ SubSeq(s, Len(s) - Len(p) + 1, Len(s)) = p

\* text.split(/\r?\n/): cur is the line being read
RECURSIVE SplitLines(_, _)
SplitLines(text, cur) ==
    IF text = <<>> THEN <<cur>>
    ELSE IF Head(text) = "\n" THEN <<cur>> \o SplitLines(Tail(text), <<>>)
    ELSE IF Head(text) = "\r" /\ Len(text) >= 2 /\ text[2] = "\n"
         THEN <<cur>> \o SplitLines(Tail(Tail(text)), <<>>)
    ELSE SplitLines(Tail(text), Append(cur, Head(text)))

RECURSIVE MapTrim(_)
MapTrim(lines) ==
    IF lines = <<>> THEN <<>> ELSE <<Trim(Head(lines))>> \o MapTrim(Tail(lines))

SUFFIX_TS == <<".", "t", "s">>
SUFFIX_M4S == <<".", "m", "4", "s">>

RECURSIVE CountSegLines(_)
CountSegLines(lines) ==
    IF lines = <<>> THEN 0
    ELSE LET ln == Head(lines)
             rest == CountSegLines(Tail(lines))
         IN  IF StartsWith(ln, <<"#">>) THEN rest
             ELSE IF EndsWith(ln, SUFFIX_TS) \/ EndsWith(ln, SUFFIX_M4S) THEN rest + 1
             ELSE rest

\* the mutant forgets to skip the comment lines
countSegmentsCountingComments(text) ==
    LET lines == SelectSeq(MapTrim(SplitLines(text, <<>>)), LAMBDA l : l # <<>>)
    IN  Len(SelectSeq(lines, LAMBDA l : EndsWith(l, SUFFIX_TS) \/ EndsWith(l, SUFFIX_M4S)))

countSegmentsInM3U8(text) ==
    LET lines == SelectSeq(MapTrim(SplitLines(text, <<>>)), LAMBDA l : l # <<>>)
    IN  CountSegLines(lines)

----------------------------------------------------------------------------
(* The environment: what the user types and what the backend answers *)

\* values of the inputUrl field
InputValues == { <<>>, <<" ">>, <<"a">>, <<" ", "b", " ">> }

LineM3U == <<"#", "E">>
LineSegA == <<"a", ".", "t", "s">>
LineSegB == <<"b", ".", "m", "4", "s">>
LineComment == <<"#", "x", ".", "t", "s">>
LineOther == <<"d", ".", "t", "s", "x">>
LF == <<"\n">>
CRLF == <<"\r", "\n">>

\* playlist bodies the backend serves
Playlists == {
    <<>>,
    LineM3U \o LF \o LineComment \o LF \o LineOther,
    LineM3U \o LF \o LineSegA \o LF \o LineComment \o LF,
    LineM3U \o CRLF \o <<" ">> \o LineSegA \o <<" ">> \o CRLF \o CRLF \o LineSegB \o LF \o LineComment
}

\* a fetch either rejects (network failure) or resolves with a response
NetFail == [fail |-> TRUE, ok |-> FALSE, hls_url |-> Null, text |-> Null]
Response(ok, hls_url, text) == [fail |-> FALSE, ok |-> ok, hls_url |-> hls_url, text |-> text]

HlsUrls == { Trim(v) : v \in InputValues } \ {Null}

\* POST /api/stream/start for input url u
StartResponses(u) == {NetFail, Response(TRUE, u, Null), Response(FALSE, Null, Null)}
\* POST /api/stream/stop and GET /api/stream/status
StatusResponses == {NetFail} \cup { Response(TRUE, u, Null) : u \in HlsUrls \cup {Null} }
\* GET of the playlist
PlaylistResponses ==
    {NetFail, Response(FALSE, Null, Null)} \cup { Response(TRUE, Null, t) : t \in Playlists }

----------------------------------------------------------------------------
(* State *)

\* One handler invocation.  elapsed is Date.now() - start of its wait and
\* sleepLeft the time until its poll timer may fire; polls counts its playlist
\* fetches, loaded is nOps at its loadPlayer call (0: none) and text the
\* playlist that made it ready.  token is -1 until the handler captures one.
NoOp == [kind |-> "none", pc |-> "idle", url |-> Null, token |-> -1, elapsed |-> 0,
         sleepLeft |-> 0, polls |-> 0, result |-> "none", loaded |-> 0, text |-> Null]

Badge(state, extra) == [state |-> state, extra |-> extra]

\* setHlsBadge(state, extra), lines 32-46; of extra the model keeps what tells
\* the error badges apart, not the segment counts
setHlsBadge(state, extra) == badge' = Badge(state, extra)

\* no file is selected
NoFile == "none"

\* video.js after its top-level code has run (lines 18-35 and clearAll() at line 304)
VideoConstructed ==
    /\ currentFile = NoFile
    /\ timeline = <<>>
    /\ overlayVisible = TRUE
    /\ lastIdx = -1
    /\ looping = FALSE
    /\ playing = FALSE
    /\ videoTime = 0
    /\ videoReady = FALSE
    /\ canvas = <<>>
    /\ detecting = 0
    /\ btnDetectDisabled = TRUE
    /\ lastHandler = [kind |-> "init", drew |-> FALSE]
    /\ hiddenCanvas = [valid |-> FALSE, canvas |-> <<>>]

\* the form data of no submission
NoForm == [file |-> NoFile, roi_enabled |-> "", params |-> {}, roi |-> <<>>]

\* photo.js after its top-level code has run (lines 31-38 and clearAll() at line 303)
PhotoConstructed ==
    /\ file = NoFile
    /\ imgW = 0
    /\ imgH = 0
    /\ boxes = NoFile
    /\ roiPts = <<>>
    /\ roiEdit = FALSE
    /\ dragIdx = -1
    /\ roiEnabledChecked = FALSE
    /\ imgLoading = NoFile
    /\ requests = <<>>
    /\ lastForm = NoForm

Init ==
    /\ startToken = 0
    /\ hls = Null
    /\ videoSrc = Null
    /\ hlsLive = 0
    /\ badge = Badge("idle", "")
    /\ safeLastStatus = Null
    /\ ops = [i \in 1..MaxOps |-> NoOp]
    /\ nOps = 0
    /\ playerKind \in {"native", "hlsjs", "none"}
    /\ VideoConstructed
    /\ PhotoConstructed

----------------------------------------------------------------------------
(* Player *)

\* stopPlayer(reason): lines 94-112
stopPlayer ==
    /\ setHlsBadge("idle", "")
    /\ hls' = Null
    /\ hlsLive' = IF hls # Null THEN hlsLive - 1 ELSE hlsLive
    /\ videoSrc' = Null

\* loadPlayer(hlsUrl): lines 114-169
loadPlayer(hlsUrl) ==
    IF playerKind = "native"
    THEN /\ videoSrc' = hlsUrl
         /\ UNCHANGED <<hls, hlsLive>>
    ELSE IF playerKind = "hlsjs"
    THEN /\ hls' = hlsUrl
         /\ hlsLive' = hlsLive + 1
         /\ videoSrc' = hlsUrl
    ELSE UNCHANGED <<hls, hlsLive, videoSrc>>

----------------------------------------------------------------------------
(* Generation token and the polling loop *)

\* the mutant forgets the increment
NextTokenStuck(t) == t

\* startToken++ (lines 192, 216, 242)
NextToken(t) == t + 1

\* token !== startToken (line 72)
IsCancelled(token, current) == token # current

\* the mutant accepts a single segment
SegsReadyAtOne(segs, minSegments) == segs >= 1

\* segs >= minSegments (line 81)
SegsReady(segs, minSegments) == segs >= minSegments

\* the mutant's loop gives up after the first poll
LoopContinuesOnce(elapsed, timeoutMs) == elapsed = 0

\* Date.now() - start < timeoutMs (line 71)
LoopContinues(elapsed, timeoutMs) == elapsed < timeoutMs

\* the mutant does not wait between polls
SleepTimeNone(pollMs) == 0

\* setTimeout(r, pollMs) (line 87): the time before the timer may fire
SleepTime(pollMs) == pollMs

\* the handler returns (or throws): the invocation is over
Finish(op, result) ==
    [op EXCEPT !.pc = "done", !.result = result, !.sleepLeft = 0,
               !.elapsed = IF result \in {"ready", "timeout"} THEN @ ELSE 0,
               !.polls = IF result \in {"ready", "timeout"} THEN @ ELSE 0]

\* The head of the while loop of waitForHlsReady (lines 71-75), run by the
\* invocation i whose record is op, with the badge b written so far and the
\* current token cur: leave by timeout, leave cancelled, or issue the fetch.
WaitLoop(i, op, b, cur) ==
    IF LoopContinues(op.elapsed, TimeoutMs)
    THEN IF IsCancelled(op.token, cur)
         THEN /\ ops' = [ops EXCEPT ![i] = Finish(op, "cancelled")]
              /\ badge' = b
         ELSE /\ ops' = [ops EXCEPT ![i] = [op EXCEPT !.pc = "poll_fetch", !.polls = @ + 1]]
              /\ badge' = b
    ELSE /\ ops' = [ops EXCEPT ![i] = Finish(op, "timeout")]
         /\ badge' = Badge("error", "timeout")

\* waitForHlsReady(hlsUrl, token, ...) up to its first await (lines 67-75)
waitForHlsReady(i, op, hlsUrl, token, cur) ==
    WaitLoop(i, [op EXCEPT !.url = hlsUrl, !.token = token, !.elapsed = 0],
             Badge("wait", ""), cur)

----------------------------------------------------------------------------
(* Handlers *)

\* startPipeline, lines 173-181: click on btnStart with the field holding v
StartClick(v) ==
    /\ nOps < MaxOps
    /\ nOps' = nOps + 1
    /\ LET url == Trim(v) IN
       IF url = Null
       THEN ops' = [ops EXCEPT ![nOps + 1] = Finish([NoOp EXCEPT !.kind = "start"], "empty")]
       ELSE ops' = [ops EXCEPT ![nOps + 1] =
                       [NoOp EXCEPT !.kind = "start", !.pc = "start_req", !.url = url]]
    /\ UNCHANGED <<startToken, hls, videoSrc, hlsLive, badge, safeLastStatus, playerKind>>
    /\ UNCHANGED notStream

\* the mutant begins the operation before it looks at resp.ok
StartRespTokenFirst(i, r) ==
    /\ ops[i].pc = "start_req"
    /\ r \in StartResponses(ops[i].url)
    /\ IF r.fail
       THEN /\ ops' = [ops EXCEPT ![i] = Finish(@, "threw")]
            /\ UNCHANGED <<startToken, badge, safeLastStatus>>
       ELSE /\ safeLastStatus' = r
            /\ startToken' = NextToken(startToken)
            /\ IF ~r.ok
               THEN /\ ops' = [ops EXCEPT ![i] = Finish(@, "rejected")]
                    /\ UNCHANGED badge
               ELSE waitForHlsReady(i, ops[i], r.hls_url, startToken', startToken')
    /\ UNCHANGED <<hls, videoSrc, hlsLive, nOps, playerKind>>
    /\ UNCHANGED notStream

\* startPipeline, lines 177-201: the start request settles with r
StartResp(i, r) ==
    /\ ops[i].pc = "start_req"
    /\ r \in StartResponses(ops[i].url)
    /\ IF r.fail
       THEN \* fetch rejects: nothing catches it
            /\ ops' = [ops EXCEPT ![i] = Finish(@, "threw")]
            /\ UNCHANGED <<startToken, badge, safeLastStatus>>
       ELSE /\ safeLastStatus' = r
            /\ IF ~r.ok
               THEN /\ ops' = [ops EXCEPT ![i] = Finish(@, "rejected")]
                    /\ UNCHANGED <<startToken, badge>>
               ELSE /\ startToken' = NextToken(startToken)
                    /\ waitForHlsReady(i, ops[i], r.hls_url, startToken', startToken')
    /\ UNCHANGED <<hls, videoSrc, hlsLive, nOps, playerKind>>
    /\ UNCHANGED notStream

\* stopPipeline, lines 215-219: click on btnStop
StopClick ==
    /\ nOps < MaxOps
    /\ nOps' = nOps + 1
    /\ startToken' = NextToken(startToken)
    /\ setHlsBadge("idle", "")
    /\ ops' = [ops EXCEPT ![nOps + 1] = [NoOp EXCEPT !.kind = "stop", !.pc = "stop_req"]]
    /\ UNCHANGED <<hls, videoSrc, hlsLive, safeLastStatus, playerKind>>
    /\ UNCHANGED notStream

\* stopPipeline, lines 219-224: the stop request settles with r
StopResp(i, r) ==
    /\ ops[i].pc = "stop_req"
    /\ r \in StatusResponses
    /\ IF r.fail
       THEN \* fetch rejects: nothing catches it, stopPlayer is not reached
            /\ ops' = [ops EXCEPT ![i] = Finish(@, "threw")]
            /\ UNCHANGED <<hls, videoSrc, hlsLive, badge, safeLastStatus>>
       ELSE /\ safeLastStatus' = r
            /\ stopPlayer
            /\ ops' = [ops EXCEPT ![i] = Finish(@, "stopped")]
    /\ UNCHANGED <<startToken, nOps, playerKind>>
    /\ UNCHANGED notStream

\* btnReload click handler, lines 240-247
ReloadClick ==
    /\ nOps < MaxOps
    /\ nOps' = nOps + 1
    /\ startToken' = NextToken(startToken)
    /\ stopPlayer
    /\ ops' = [ops EXCEPT ![nOps + 1] =
                  [NoOp EXCEPT !.kind = "reload", !.pc = "status_req", !.token = startToken']]
    /\ UNCHANGED <<safeLastStatus, playerKind>>
    /\ UNCHANGED notStream

\* btnReload click handler, lines 247-262 and 274-277: the status request settles with r
StatusResp(i, r) ==
    /\ ops[i].pc = "status_req"
    /\ r \in StatusResponses
    /\ IF r.fail
       THEN \* caught at line 274
            /\ ops' = [ops EXCEPT ![i] = Finish(@, "caught")]
            /\ setHlsBadge("error", "reload_error")
            /\ UNCHANGED safeLastStatus
       ELSE /\ safeLastStatus' = r
            /\ IF r.hls_url = Null
               THEN /\ ops' = [ops EXCEPT ![i] = Finish(@, "nohls")]
                    /\ setHlsBadge("error", "no_hls_url")
               ELSE waitForHlsReady(i, ops[i], r.hls_url, ops[i].token, startToken)
    /\ UNCHANGED <<startToken, hls, videoSrc, hlsLive, nOps, playerKind>>
    /\ UNCHANGED notStream

\* waitForHlsReady, lines 75-87, and its caller's lines 203-212 / 264-277:
\* the playlist fetch of invocation i settles with r
PollResp(i, r) ==
    /\ ops[i].pc = "poll_fetch"
    /\ r \in PlaylistResponses
    /\ IF r.fail
       THEN IF ops[i].kind = "reload"
            THEN \* caught at line 274
                 /\ ops' = [ops EXCEPT ![i] = Finish(@, "caught")]
                 /\ setHlsBadge("error", "reload_error")
                 /\ UNCHANGED <<hls, videoSrc, hlsLive>>
            ELSE \* startPipeline catches nothing
                 /\ ops' = [ops EXCEPT ![i] = Finish(@, "threw")]
                 /\ UNCHANGED <<badge, hls, videoSrc, hlsLive>>
       ELSE LET text == IF r.ok THEN r.text ELSE Null
                segs == countSegmentsInM3U8(text)
            IN  IF text # Null /\ SegsReady(segs, MinSegments)
                THEN /\ setHlsBadge("ready", "")
                     /\ loadPlayer(ops[i].url)
                     /\ ops' = [ops EXCEPT ![i] =
                                   [Finish(@, "ready") EXCEPT !.loaded = nOps, !.text = text]]
                ELSE /\ IF text # Null
                        THEN setHlsBadge("wait", "")
                        ELSE UNCHANGED badge
                     /\ ops' = [ops EXCEPT ![i] =
                                   [@ EXCEPT !.pc = "sleep", !.sleepLeft = SleepTime(PollMs)]]
                     /\ UNCHANGED <<hls, videoSrc, hlsLive>>
    /\ UNCHANGED <<startToken, safeLastStatus, nOps, playerKind>>
    /\ UNCHANGED notStream

\* waitForHlsReady, lines 87 and 71-75: the poll timer of invocation i fires
Wake(i) ==
    /\ ops[i].pc = "sleep"
    /\ ops[i].sleepLeft = 0
    /\ WaitLoop(i, ops[i], badge, startToken)
    /\ UNCHANGED <<startToken, hls, videoSrc, hlsLive, safeLastStatus, nOps, playerKind>>
    /\ UNCHANGED notStream

\* btnStopPlayer click handler, line 280
StopPlayerClick ==
    /\ stopPlayer
    /\ UNCHANGED <<startToken, safeLastStatus, ops, nOps, playerKind>>
    /\ UNCHANGED notStream

\* hls.js ERROR handler, lines 147-157: a fatal error that is neither a
\* network nor a media error
HlsFatalError ==
    /\ hls # Null
    /\ stopPlayer
    /\ UNCHANGED <<startToken, safeLastStatus, ops, nOps, playerKind>>
    /\ UNCHANGED notStream

Waiting(op) == op.pc \in {"poll_fetch", "sleep"}

\* a wait has a timer or a deadline still ahead
TimePending ==
    \E i \in 1..MaxOps :
        Waiting(ops[i]) /\ (ops[i].elapsed < TimeoutMs \/ ops[i].sleepLeft > 0)

\* The clock moves on by TickMs: Date.now() grows for every wait and every
\* poll timer comes nearer.  Time past a wait's deadline is not tracked.
Advance ==
    /\ TimePending
    /\ ops' = [i \in 1..MaxOps |->
                 IF Waiting(ops[i])
                 THEN [ops[i] EXCEPT
                          !.elapsed = IF @ < TimeoutMs THEN @ + TickMs ELSE @,
                          !.sleepLeft = IF @ > TickMs THEN @ - TickMs ELSE 0]
                 ELSE ops[i]]
    /\ UNCHANGED <<startToken, hls, videoSrc, hlsLive, badge, safeLastStatus, nOps, playerKind>>
    /\ UNCHANGED notStream

Next ==
    \/ \E v \in InputValues : StartClick(v)
    \/ \E i \in 1..MaxOps : \E u \in HlsUrls : \E r \in StartResponses(u) : StartResp(i, r)
    \/ StopClick
    \/ \E i \in 1..MaxOps : \E r \in StatusResponses : StopResp(i, r)
    \/ ReloadClick
    \/ \E i \in 1..MaxOps : \E r \in StatusResponses : StatusResp(i, r)
    \/ \E i \in 1..MaxOps : \E r \in PlaylistResponses : PollResp(i, r)
    \/ \E i \in 1..MaxOps : Wake(i)
    \/ StopPlayerClick
    \/ HlsFatalError
    \/ Advance

Spec == Init /\ [][Next]_vars

\* The event loop runs every task that is ready, timers fire and every
\* request settles: each step of an invocation that stays possible is taken.
FairSpec ==
    /\ Spec
    /\ WF_vars(Advance)
    /\ \A i \in 1..MaxOps :
          /\ WF_vars(Wake(i))
          /\ WF_vars(\E r \in PlaylistResponses : PollResp(i, r))

----------------------------------------------------------------------------
(* Frame-Synchronized Overlay Renderer: bounds and environment *)

\* longest timeline a detection response carries
MaxLen == 3
\* playback positions and entry times are 0..MaxT
MaxT == 3
\* detectVideo invocations awaiting their response at one time
MaxDetects == 1

Times == 0..MaxT

\* the time sequences of length n in ascending order (equal times allowed)
SortedTimes(n) == { s \in [1..n -> Times] : \A i \in 1..(n - 1) : s[i] <= s[i + 1] }

\* The timelines a detection response carries (data.timeline), the empty one
\* among them: TimelineEntry {t, boxes}.  The entry at position i carries the
\* boxes <<i>>, so that the canvas tells which entry was drawn.
Timelines ==
    UNION { { [i \in 1..n |-> [t |-> s[i], boxes |-> <<i>>]] : s \in SortedTimes(n) } :
            n \in 0..MaxLen }

\* the files the user can pick
VideoFiles == {"a.mp4"}

\* what a detection request settles with: a failure (a network error or a
\* status that is not ok) or a response with a timeline
DetectResponses ==
    {[ok |-> FALSE, timeline |-> <<>>]} \cup { [ok |-> TRUE, timeline |-> tl] : tl \in Timelines }

----------------------------------------------------------------------------
(* Frame-Synchronized Overlay Renderer: functions *)

\* The while loop of findNearestIndex (lines 90-96) over the entries tl, with
\* indexes from 0 as in the source: the final <<lo, hi>>.
RECURSIVE BinarySearch(_, _, _, _)
BinarySearch(tl, t, lo, hi) ==
    IF lo <= hi
    THEN LET mid == (lo + hi) \div 2
             mt == tl[mid + 1].t
         IN  IF mt < t
             THEN BinarySearch(tl, t, mid + 1, hi)
             ELSE BinarySearch(tl, t, lo, mid - 1)
    ELSE <<lo, hi>>

\* the mutant returns the last entry before t without comparing the distances
findNearestIndexBefore(tl, t) ==
    LET n == Len(tl) IN
    IF n = 0 THEN -1
    ELSE LET r == BinarySearch(tl, t, 0, n - 1)
             lo == r[1]
             hi == r[2]
         IN  IF hi < 0 THEN 0
             ELSE hi

\* findNearestIndex(t), lines 86-100, on the timeline tl
findNearestIndex(tl, t) ==
    LET n == Len(tl) IN
    IF n = 0 THEN -1
    ELSE LET r == BinarySearch(tl, t, 0, n - 1)
             lo == r[1]
             hi == r[2]
         IN  IF hi < 0 THEN 0
             ELSE IF lo >= n THEN n - 1
             ELSE IF (t - tl[hi + 1].t) <= (tl[lo + 1].t - t) THEN hi ELSE lo

\* the mutant draws whether or not the overlay is visible
drawBoxesAlways(bs, visible, ready, cv) ==
    IF ~ready THEN cv ELSE bs

\* drawBoxes(boxes), lines 102-150: the canvas it leaves, cv being the canvas
\* it finds
drawBoxes(bs, visible, ready, cv) ==
    IF ~visible THEN <<>>
    ELSE IF ~ready THEN cv
    ELSE bs

\* the mutant skips the redraw of an unchanged index for every caller
SkipRedrawAlways(onlyIfChanged, idx, last) == idx = last

\* onlyIfChanged && idx === lastIdx (line 165)
SkipRedraw(onlyIfChanged, idx, last) == onlyIfChanged /\ idx = last

\* updateOverlayFromCurrentTime(onlyIfChanged), lines 152-174, called by the
\* handler kind with the timeline tl, the playback time t, the visibility
\* visible and the canvas cv the handler has when it makes the call
updateOverlayFromCurrentTime(kind, onlyIfChanged, tl, t, visible, cv) ==
    IF Len(tl) = 0
    THEN /\ canvas' = <<>>
         /\ lastIdx' = -1
         /\ lastHandler' = [kind |-> kind, drew |-> FALSE]
    ELSE LET idx == findNearestIndex(tl, t) IN
         IF idx < 0 \/ SkipRedraw(onlyIfChanged, idx, lastIdx)
         THEN /\ canvas' = cv
              /\ lastIdx' = lastIdx
              /\ lastHandler' = [kind |-> kind, drew |-> FALSE]
         ELSE /\ lastIdx' = idx
              /\ canvas' = drawBoxes(tl[idx + 1].boxes, visible, videoReady', cv)
              /\ lastHandler' = [kind |-> kind, drew |-> TRUE]

\* what another handler leaves of the canvas remembered at the last hide
Forget == [hiddenCanvas EXCEPT !.valid = FALSE]

----------------------------------------------------------------------------
(* Frame-Synchronized Overlay Renderer: handlers *)

\* fileInput change handler, lines 244-265, with the file f (NoFile: the
\* dialog was emptied); video.load() resets the element
VideoFileChange(f) ==
    /\ currentFile' = f
    /\ timeline' = <<>>
    /\ canvas' = <<>>
    /\ IF f = NoFile
       THEN /\ btnDetectDisabled' = TRUE
            /\ UNCHANGED <<playing, videoTime, videoReady>>
       ELSE /\ btnDetectDisabled' = FALSE
            /\ playing' = FALSE
            /\ videoTime' = 0
            /\ videoReady' = FALSE
    /\ lastHandler' = [kind |-> "file", drew |-> FALSE]
    /\ hiddenCanvas' = Forget
    /\ UNCHANGED <<overlayVisible, lastIdx, looping, detecting>>
    /\ UNCHANGED notVideo

\* clearAll, lines 231-242: click on btnClear, enabled while a file is selected
VideoClearAll ==
    /\ currentFile # NoFile
    /\ currentFile' = NoFile
    /\ timeline' = <<>>
    /\ canvas' = <<>>
    /\ btnDetectDisabled' = TRUE
    /\ playing' = FALSE
    /\ videoTime' = 0
    /\ videoReady' = FALSE
    /\ lastHandler' = [kind |-> "clear", drew |-> FALSE]
    /\ hiddenCanvas' = Forget
    /\ UNCHANGED <<overlayVisible, lastIdx, looping, detecting>>
    /\ UNCHANGED notVideo

\* detectVideo, lines 176-189: click on btnDetect, up to the awaited fetch
VideoDetectClick ==
    /\ ~btnDetectDisabled
    /\ currentFile # NoFile
    /\ detecting < MaxDetects
    /\ detecting' = detecting + 1
    /\ btnDetectDisabled' = TRUE
    /\ lastHandler' = [kind |-> "detect", drew |-> FALSE]
    /\ UNCHANGED <<currentFile, timeline, overlayVisible, lastIdx, looping, playing,
                   videoTime, videoReady, canvas, hiddenCanvas>>
    /\ UNCHANGED notVideo

\* detectVideo, lines 189-221: the response arrives, ok with the timeline tl
VideoDetectResp(ok, tl) ==
    /\ detecting > 0
    /\ detecting' = detecting - 1
    /\ btnDetectDisabled' = FALSE
    /\ hiddenCanvas' = Forget
    /\ UNCHANGED <<currentFile, overlayVisible, looping, playing, videoTime, videoReady>>
    /\ IF ok
       THEN /\ timeline' = tl
            /\ updateOverlayFromCurrentTime("response", FALSE, tl, videoTime,
                                            overlayVisible, canvas)
       ELSE /\ timeline' = <<>>
            /\ canvas' = <<>>
            /\ lastHandler' = [kind |-> "response", drew |-> FALSE]
            /\ UNCHANGED lastIdx
    /\ UNCHANGED notVideo

\* btnStopOverlay click handler, lines 271-275
ToggleOverlay ==
    /\ overlayVisible' = ~overlayVisible
    /\ hiddenCanvas' = IF overlayVisible
                       THEN [valid |-> TRUE, canvas |-> canvas]
                       ELSE hiddenCanvas
    /\ UNCHANGED <<currentFile, timeline, looping, playing, videoTime, videoReady,
                   detecting, btnDetectDisabled>>
    /\ updateOverlayFromCurrentTime("toggle", FALSE, timeline, videoTime,
                                    overlayVisible', canvas)
    /\ UNCHANGED notVideo

\* play handler, lines 277-279, and startOverlayLoop, lines 48-65
Play ==
    /\ videoReady
    /\ ~playing
    /\ playing' = TRUE
    /\ looping' = TRUE
    /\ lastHandler' = [kind |-> "play", drew |-> FALSE]
    /\ UNCHANGED <<currentFile, timeline, overlayVisible, lastIdx, videoTime, videoReady,
                   canvas, detecting, btnDetectDisabled, hiddenCanvas>>
    /\ UNCHANGED notVideo

\* pause handler, lines 281-284
Pause ==
    /\ playing
    /\ playing' = FALSE
    /\ looping' = FALSE
    /\ UNCHANGED <<currentFile, timeline, overlayVisible, videoTime, videoReady,
                   detecting, btnDetectDisabled, hiddenCanvas>>
    /\ updateOverlayFromCurrentTime("pause", FALSE, timeline, videoTime,
                                    overlayVisible, canvas)
    /\ UNCHANGED notVideo

\* ended handler, lines 286-288
Ended ==
    /\ playing
    /\ playing' = FALSE
    /\ looping' = FALSE
    /\ lastHandler' = [kind |-> "ended", drew |-> FALSE]
    /\ UNCHANGED <<currentFile, timeline, overlayVisible, lastIdx, videoTime, videoReady,
                   canvas, detecting, btnDetectDisabled, hiddenCanvas>>
    /\ UNCHANGED notVideo

\* tick, lines 52-55 and 60-63: the callback of the render loop, at the
\* playback time t of the frame it is called for
Tick(t) ==
    /\ looping
    /\ t \in Times
    /\ IF playing THEN t \in {videoTime, videoTime + 1} ELSE t = videoTime
    /\ videoTime' = t
    /\ hiddenCanvas' = IF t = videoTime THEN hiddenCanvas ELSE Forget
    /\ UNCHANGED <<currentFile, timeline, overlayVisible, looping, playing, videoReady,
                   detecting, btnDetectDisabled>>
    /\ updateOverlayFromCurrentTime("tick", TRUE, timeline, t, overlayVisible, canvas)
    /\ UNCHANGED notVideo

\* seeked handler, lines 290-292: the user has moved the playback position to t
Seeked(t) ==
    /\ videoReady
    /\ t \in Times
    /\ videoTime' = t
    /\ hiddenCanvas' = IF t = videoTime THEN hiddenCanvas ELSE Forget
    /\ UNCHANGED <<currentFile, timeline, overlayVisible, looping, playing, videoReady,
                   detecting, btnDetectDisabled>>
    /\ updateOverlayFromCurrentTime("seeked", FALSE, timeline, t, overlayVisible, canvas)
    /\ UNCHANGED notVideo

\* loadedmetadata handler, lines 294-297: the selected file has its
\* dimensions; resizeCanvasToVideo (lines 69-77) sets canvas.width, which
\* empties the canvas
LoadedMetadata ==
    /\ currentFile # NoFile
    /\ ~videoReady
    /\ videoReady' = TRUE
    /\ hiddenCanvas' = Forget
    /\ UNCHANGED <<currentFile, timeline, overlayVisible, looping, playing, videoTime,
                   detecting, btnDetectDisabled>>
    /\ updateOverlayFromCurrentTime("loadedmetadata", FALSE, timeline, videoTime,
                                    overlayVisible, <<>>)
    /\ UNCHANGED notVideo

\* window resize handler, lines 299-302
VideoResize ==
    /\ UNCHANGED <<currentFile, timeline, overlayVisible, looping, playing, videoTime,
                   videoReady, detecting, btnDetectDisabled, hiddenCanvas>>
    /\ updateOverlayFromCurrentTime("resize", FALSE, timeline, videoTime,
                                    overlayVisible, <<>>)
    /\ UNCHANGED notVideo

VideoNext ==
    \/ \E f \in VideoFiles \cup {NoFile} : VideoFileChange(f)
    \/ VideoClearAll
    \/ VideoDetectClick
    \/ \E r \in DetectResponses : VideoDetectResp(r.ok, r.timeline)
    \/ ToggleOverlay
    \/ Play
    \/ Pause
    \/ Ended
    \/ \E t \in Times : Tick(t)
    \/ \E t \in Times : Seeked(t)
    \/ LoadedMetadata
    \/ VideoResize

\* the video page: the stream page never starts (no player, no handler runs)
VideoInit ==
    /\ Init
    /\ playerKind = "none"

VideoSpec == VideoInit /\ [][VideoNext]_videoVars

----------------------------------------------------------------------------
(* ROI Polygon Editor: bounds and environment *)

\* most points the user puts into the polygon
MaxPts == 3
\* detect requests awaiting their response at one time
MaxRequests == 1

\* const r = 8 (photo.js:164): the hit radius in display pixels
HitRadius == 8

\* the images the user can pick and their naturalWidth / naturalHeight
PhotoFiles == {"a.png", "b.png"}
Natural(f) == IF f = "a.png" THEN [w |-> 48, h |-> 24] ELSE [w |-> 24, h |-> 12]

\* els.img.getBoundingClientRect(), rounded: the page shows every image in
\* the same box
DispRect == [w |-> 24, h |-> 12]

\* where the pointer goes down: on the overlay, in display pixels from its
\* corner
PressAt == { <<0, 0>>, <<6, 0>>, <<12, 0>>, <<24, 0>>, <<12, 12>> }
\* where a captured pointer moves: also off the overlay
MoveAt == { <<-6, -6>>, <<6, 0>>, <<30, 18>> }

----------------------------------------------------------------------------
(* ROI Polygon Editor: functions *)

Point(x, y) == [x |-> x, y |-> y]

\* a quotient the source computes in floating point, kept exact
Frac(num, den) == [num |-> num, den |-> den]

\* canvasSizeToImage(), lines 86-95
canvasSizeToImage == DispRect

\* dispToImg(x, y), lines 97-100: (x / w) * imgW.  The positions and sizes of
\* the model make every quotient a whole number.
dispToImg(x, y, iw, ih) ==
    Point((x * iw) \div canvasSizeToImage.w, (y * ih) \div canvasSizeToImage.h)

\* imgToDisp(x, y), lines 102-105: (x / imgW) * w
imgToDisp(x, y, iw, ih) ==
    Point(Frac(x * canvasSizeToImage.w, iw), Frac(y * canvasSizeToImage.h, ih))

\* dx * dx + dy * dy <= r * r (lines 166-169) for the point p and the press
\* at (dispX, dispY), with dx = dispX - d.x and dy = dispY - d.y brought to
\* the common denominator d.x.den * d.y.den
InRadius(p, dispX, dispY, iw, ih) ==
    LET d == imgToDisp(p.x, p.y, iw, ih)
        dx == dispX * d.x.den - d.x.num
        dy == dispY * d.y.den - d.y.num
    IN  dx * dx * d.y.den * d.y.den + dy * dy * d.x.den * d.x.den
            <= HitRadius * HitRadius * d.x.den * d.x.den * d.y.den * d.y.den

\* the loop of hitTestPoint from the point of index i on (indexes from 0)
RECURSIVE HitFrom(_, _, _, _, _, _)
HitFrom(pts, i, dispX, dispY, iw, ih) ==
    IF i >= Len(pts) THEN -1
    ELSE IF InRadius(pts[i + 1], dispX, dispY, iw, ih) THEN i
    ELSE HitFrom(pts, i + 1, dispX, dispY, iw, ih)

\* the mutant never finds a point
hitTestPointNone(pts, dispX, dispY, iw, ih) == -1

\* hitTestPoint(dispX, dispY), lines 163-172
hitTestPoint(pts, dispX, dispY, iw, ih) == HitFrom(pts, 0, dispX, dispY, iw, ih)

\* the mutant has no lower limit
ClampNoFloor(v, hi) == IF hi <= v THEN hi ELSE v

\* Math.max(0, Math.min(hi, v)) (lines 228-229)
Clamp(v, hi) ==
    LET m == IF hi <= v THEN hi ELSE v
    IN  IF m <= 0 THEN 0 ELSE m

\* the mutant keeps the drag when the polygon is cleared
DragAfterClearKept(d) == d

\* dragIdx = -1 (line 185)
DragAfterClear(d) == -1

\* the mutant exports a polygon of any size
UseRoiAnyPoints(checked, n) == checked /\ n >= 1

\* els.roiEnabled.checked && roiPts.length >= 3 (line 275)
UseRoi(checked, n) == checked /\ n >= 3

\* roiPts.map(p => [p.x / imgW, p.y / imgH]) (line 279)
RoiNorm(pts, iw, ih) ==
    [i \in 1..Len(pts) |-> Point(Frac(pts[i].x, iw), Frac(pts[i].y, ih))]

\* the FormData of the click handler of btnDetect, lines 272-282
FormData(f, checked, pts, iw, ih) ==
    IF UseRoi(checked, Len(pts))
    THEN [file |-> f, roi_enabled |-> "true",
          params |-> {"file", "roi_enabled", "roi", "roi_format"},
          roi |-> RoiNorm(pts, iw, ih)]
    ELSE [file |-> f, roi_enabled |-> "false",
          params |-> {"file", "roi_enabled"},
          roi |-> <<>>]

\* the sequence s without its element k
Without(s, k) == SubSeq(s, 1, k - 1) \o SubSeq(s, k + 1, Len(s))

----------------------------------------------------------------------------
(* ROI Polygon Editor: handlers *)

\* fileInput change handler, lines 243-264, with the file f (NoFile: the
\* dialog was cancelled); the image loads later
PhotoFileChange(f) ==
    /\ IF f = NoFile
       THEN UNCHANGED <<file, boxes, roiPts, roiEdit, dragIdx, imgLoading>>
       ELSE /\ file' = f
            /\ boxes' = NoFile
            /\ roiPts' = <<>>
            /\ roiEdit' = FALSE
            /\ dragIdx' = -1
            /\ imgLoading' = f
    /\ lastForm' = NoForm
    /\ UNCHANGED <<imgW, imgH, roiEnabledChecked, requests>>
    /\ UNCHANGED notPhoto

\* els.img.onload, lines 254-260: the image picked last has loaded
ImgOnload ==
    /\ imgLoading # NoFile
    /\ imgW' = Natural(imgLoading).w
    /\ imgH' = Natural(imgLoading).h
    /\ imgLoading' = NoFile
    /\ lastForm' = NoForm
    /\ UNCHANGED <<file, boxes, roiPts, roiEdit, dragIdx, roiEnabledChecked, requests>>
    /\ UNCHANGED notPhoto

\* clearAll, lines 66-82: click on btnClear, enabled while a file is selected
PhotoClearAll ==
    /\ file # NoFile
    /\ file' = NoFile
    /\ imgW' = 0
    /\ imgH' = 0
    /\ boxes' = NoFile
    /\ roiPts' = <<>>
    /\ roiEdit' = FALSE
    /\ dragIdx' = -1
    /\ imgLoading' = NoFile
    /\ lastForm' = NoForm
    /\ UNCHANGED <<roiEnabledChecked, requests>>
    /\ UNCHANGED notPhoto

\* btnEditRoi click handler, lines 174-181
EditRoiClick ==
    /\ file # NoFile
    /\ roiEdit' = ~roiEdit
    /\ dragIdx' = -1
    /\ lastForm' = NoForm
    /\ UNCHANGED <<file, imgW, imgH, boxes, roiPts, roiEnabledChecked, imgLoading, requests>>
    /\ UNCHANGED notPhoto

\* btnClearRoi click handler, lines 183-188; updateUiEnabled (line 55)
\* disables the button while there is no point
ClearRoiClick ==
    /\ roiPts # <<>>
    /\ roiPts' = <<>>
    /\ dragIdx' = DragAfterClear(dragIdx)
    /\ lastForm' = NoForm
    /\ UNCHANGED <<file, imgW, imgH, boxes, roiEdit, roiEnabledChecked, imgLoading, requests>>
    /\ UNCHANGED notPhoto

\* keydown handler, lines 190-198, for the Escape key
Escape ==
    /\ IF roiEdit
       THEN /\ roiEdit' = FALSE
            /\ dragIdx' = -1
       ELSE UNCHANGED <<roiEdit, dragIdx>>
    /\ lastForm' = NoForm
    /\ UNCHANGED <<file, imgW, imgH, boxes, roiPts, roiEnabledChecked, imgLoading, requests>>
    /\ UNCHANGED notPhoto

\* pointerdown handler, lines 200-218, at (x, y) of the overlay
PointerDown(x, y) ==
    /\ IF ~roiEdit \/ imgW = 0
       THEN UNCHANGED <<roiPts, dragIdx>>
       ELSE LET idx == hitTestPoint(roiPts, x, y, imgW, imgH) IN
            IF idx >= 0
            THEN /\ dragIdx' = idx
                 /\ UNCHANGED roiPts
            ELSE /\ Len(roiPts) < MaxPts
                 /\ roiPts' = Append(roiPts, dispToImg(x, y, imgW, imgH))
                 /\ UNCHANGED dragIdx
    /\ lastForm' = NoForm
    /\ UNCHANGED <<file, imgW, imgH, boxes, roiEdit, roiEnabledChecked, imgLoading, requests>>
    /\ UNCHANGED notPhoto

\* pointermove handler, lines 220-232, at (x, y) of the overlay
PointerMove(x, y) ==
    /\ IF ~roiEdit \/ dragIdx < 0 \/ imgW = 0
       THEN UNCHANGED roiPts
       ELSE LET p == dispToImg(x, y, imgW, imgH) IN
            roiPts' = [roiPts EXCEPT ![dragIdx + 1] =
                          Point(Clamp(p.x, imgW - 1), Clamp(p.y, imgH - 1))]
    /\ lastForm' = NoForm
    /\ UNCHANGED <<file, imgW, imgH, boxes, roiEdit, dragIdx, roiEnabledChecked,
                   imgLoading, requests>>
    /\ UNCHANGED notPhoto

\* pointerup handler, lines 234-241
PointerUp ==
    /\ IF dragIdx >= 0
       THEN dragIdx' = -1
       ELSE UNCHANGED dragIdx
    /\ lastForm' = NoForm
    /\ UNCHANGED <<file, imgW, imgH, boxes, roiPts, roiEdit, roiEnabledChecked,
                   imgLoading, requests>>
    /\ UNCHANGED notPhoto

\* the user ticks or unticks the checkbox roiEnabled (no handler of the script)
RoiEnabledClick ==
    /\ roiEnabledChecked' = ~roiEnabledChecked
    /\ lastForm' = NoForm
    /\ UNCHANGED <<file, imgW, imgH, boxes, roiPts, roiEdit, dragIdx, imgLoading, requests>>
    /\ UNCHANGED notPhoto

\* btnDetect click handler, lines 266-284, up to the awaited fetch
PhotoDetectClick ==
    /\ file # NoFile
    /\ Len(requests) < MaxRequests
    /\ boxes' = NoFile
    /\ lastForm' = FormData(file, roiEnabledChecked, roiPts, imgW, imgH)
    /\ requests' = Append(requests, file)
    /\ UNCHANGED <<file, imgW, imgH, roiPts, roiEdit, dragIdx, roiEnabledChecked, imgLoading>>
    /\ UNCHANGED notPhoto

\* the mutant's response handler resets the ROI editor as a new file does
PhotoDetectRespClearingRoi(k, ok) ==
    /\ k \in 1..Len(requests)
    /\ requests' = Without(requests, k)
    /\ boxes' = IF ok THEN requests[k] ELSE boxes
    /\ roiPts' = <<>>
    /\ roiEdit' = FALSE
    /\ dragIdx' = -1
    /\ lastForm' = NoForm
    /\ UNCHANGED <<file, imgW, imgH, roiEnabledChecked, imgLoading>>
    /\ UNCHANGED notPhoto

\* btnDetect click handler, lines 284-300: the request k settles, ok with the
\* boxes detected in its file
PhotoDetectResp(k, ok) ==
    /\ k \in 1..Len(requests)
    /\ requests' = Without(requests, k)
    /\ boxes' = IF ok THEN requests[k] ELSE boxes
    /\ lastForm' = NoForm
    /\ UNCHANGED <<file, imgW, imgH, roiPts, roiEdit, dragIdx, roiEnabledChecked, imgLoading>>
    /\ UNCHANGED notPhoto

PhotoNext ==
    \/ \E f \in PhotoFiles \cup {NoFile} : PhotoFileChange(f)
    \/ ImgOnload
    \/ PhotoClearAll
    \/ EditRoiClick
    \/ ClearRoiClick
    \/ Escape
    \/ \E p \in PressAt : PointerDown(p[1], p[2])
    \/ \E p \in MoveAt : PointerMove(p[1], p[2])
    \/ PointerUp
    \/ RoiEnabledClick
    \/ PhotoDetectClick
    \/ \E k \in 1..MaxRequests : \E ok \in BOOLEAN : PhotoDetectResp(k, ok)

\* the photo page: the stream page never starts (no player, no handler runs)
PhotoInit ==
    /\ Init
    /\ playerKind = "none"

PhotoSpec == PhotoInit /\ [][PhotoNext]_photoVars

----------------------------------------------------------------------------
(* Properties *)

HasToken(op) == op.token # -1
\* the wait of invocation i is superseded
Stale(i) == HasToken(ops[i]) /\ ops[i].token # startToken
AllSettled == \A i \in 1..MaxOps : ops[i].pc \in {"idle", "done"}

\* C1: once superseded, a readiness wait has no further observable effect:
\* a step of a stale wait writes no badge state, does not touch the player
\* and does not end with the ready result.
C1_StaleWaitHasNoEffect ==
    [][\A i \in 1..MaxOps :
          (Waiting(ops[i]) /\ Stale(i) /\ ops'[i] # ops[i])
              => /\ badge' = badge
                 /\ hls' = hls /\ videoSrc' = videoSrc
                 /\ ops'[i].result # "ready"]_vars

\* C2: of two start invocations a then b with different urls (b accepted by
\* the backend), a never calls loadPlayer once b has been invoked.
C2_OnlyNewerStartLoads ==
    \A a, b \in 1..MaxOps :
        (/\ a < b
         /\ ops[a].kind = "start" /\ ops[b].kind = "start"
         /\ HasToken(ops[b])
         /\ ops[a].url # ops[b].url
         /\ ops[a].loaded # 0)
            => ops[a].loaded < b

\* C3: after a stop() that no start or reload follows, no earlier invocation
\* calls loadPlayer, and once every request has settled the player is torn
\* down.
C3_StopIsFinal ==
    \A s \in 1..nOps :
        (/\ ops[s].kind = "stop"
         /\ \A j \in (s + 1)..nOps : ops[j].kind = "stop")
            => /\ \A e \in 1..(s - 1) : ops[e].loaded < s
               /\ AllSettled => (hls = Null /\ videoSrc = Null)

\* C4: at most one unfinished invocation holds the current token, the tokens
\* captured by distinct invocations are pairwise distinct, and startToken
\* never decreases.
C4_OneActiveWait ==
    /\ [](/\ Cardinality({i \in 1..MaxOps :
                            ops[i].pc # "done" /\ HasToken(ops[i])
                            /\ ops[i].token = startToken}) <= 1
          /\ \A i, j \in 1..MaxOps :
                (i # j /\ HasToken(ops[i]) /\ HasToken(ops[j]))
                    => ops[i].token # ops[j].token)
    /\ [][startToken' >= startToken]_vars

\* two waits in flight with distinct tokens, one of them current
C4_Witness ==
    \E i, j \in 1..MaxOps :
        /\ Waiting(ops[i]) /\ Waiting(ops[j])
        /\ ops[i].token = startToken /\ Stale(j)

\* C5: a superseded wait is never reported as a timeout: it does not end
\* with the timeout result and does not set the badge to error/timeout.
C5_StaleWaitNeverTimesOut ==
    [][\A i \in 1..MaxOps :
          (Waiting(ops[i]) /\ Stale(i) /\ ops'[i].pc = "done")
              => /\ ops'[i].result # "timeout"
                 /\ badge' # Badge("error", "timeout")]_vars

\* The segment lines of a playlist, counted from the text itself: the lines
\* between two line breaks that, trimmed, are no comment and end in a segment
\* suffix.
SegmentLineCount(text) ==
    LET breaks == {0, Len(text) + 1} \cup {k \in 1..Len(text) : text[k] = "\n"}
        line(p) == LET q == CHOOSE q \in breaks : q > p /\ \A k \in breaks : ~(p < k /\ k < q)
                   IN  Trim(SubSeq(text, p + 1, q - 1))
    IN  Cardinality({p \in breaks \ {Len(text) + 1} :
                        /\ line(p) # <<>>
                        /\ Head(line(p)) # "#"
                        /\ \/ EndsWith(line(p), <<".", "t", "s">>)
                           \/ EndsWith(line(p), <<".", "m", "4", "s">>)})

\* C6: a wait ends ready, and loadPlayer is called, only on a playlist it
\* fetched that holds at least minSegments segment lines.
C6_ReadyOnlyWithSegments ==
    \A i \in 1..MaxOps :
        /\ ops[i].result = "ready" => SegmentLineCount(ops[i].text) >= MinSegments
        /\ ops[i].loaded # 0 => ops[i].result = "ready"

\* a wait that polled a playlist with too few segments first and became
\* ready on a later poll
C6_Witness ==
    \E i \in 1..MaxOps :
        /\ ops[i].result = "ready" /\ ops[i].polls >= 2 /\ ops[i].loaded # 0
        /\ SegmentLineCount(ops[i].text) = MinSegments

\* C7 as stated: a wait that becomes ready on its 3rd poll hands off no
\* earlier than three poll intervals (1.5 s) after it began.
C7_ThirdPollAfterThreeIntervals ==
    \A i \in 1..MaxOps :
        (ops[i].result = "ready" /\ ops[i].polls = 3) => ops[i].elapsed >= 3 * PollMs

\* C7 amended: the first poll is issued at once, so a wait that becomes
\* ready on its k-th poll hands off no earlier than k-1 poll intervals after
\* it began: on the 3rd poll, no earlier than 1.0 s.
C7_ThirdPollAfterTwoIntervals ==
    \A i \in 1..MaxOps :
        ops[i].result = "ready" => ops[i].elapsed >= (ops[i].polls - 1) * PollMs

\* ready on the 3rd poll, exactly two poll intervals after the wait began
C7_Witness ==
    \E i \in 1..MaxOps :
        ops[i].result = "ready" /\ ops[i].polls = 3 /\ ops[i].elapsed = 2 * PollMs

\* C8: a network failure of a request is caught: no exception escapes the
\* handler, the badge ends idle or error, and a stop still tears down the
\* player.
C8_NetworkFailureIsCaught ==
    [][\A i \in 1..MaxOps :
          (ops[i].pc # "done" /\ ops'[i].result \in {"threw", "caught"})
              => /\ ops'[i].result = "caught"
                 /\ badge'.state \in {"idle", "error"}
                 /\ ops[i].kind = "stop" => (hls' = Null /\ videoSrc' = Null)]_vars

\* C9: a fetch that fails with a non-success status or brings too few
\* segments does not end the wait; the wait polls at most once per poll
\* interval, ends with the timeout outcome only when the budget has elapsed,
\* ends cancelled only when superseded, and always ends.
C9_PollsUntilTimeout ==
    /\ [](\A i \in 1..MaxOps :
            /\ ops[i].result = "timeout" => ops[i].elapsed >= TimeoutMs
            /\ ops[i].result = "cancelled" => Stale(i)
            /\ Waiting(ops[i]) => ops[i].elapsed >= (ops[i].polls - 1) * PollMs)
    /\ [][\A i \in 1..MaxOps :
            (ops[i].pc = "poll_fetch" /\ ops'[i].pc = "done")
                => ops'[i].result \in {"ready", "threw", "caught"}]_vars
    /\ \A i \in 1..MaxOps : Waiting(ops[i]) ~> (ops[i].pc = "done")

\* a wait that was never superseded timed out after polling three times
C9_Witness ==
    \E i \in 1..MaxOps :
        /\ ops[i].result = "timeout" /\ ops[i].polls = 3
        /\ ops[i].token = startToken

\* C10: a rejected start (empty input, or a non-success answer to the start
\* request) polls nothing, leaves startToken, the badge and the player alone
\* and changes no other invocation; with empty input no request is sent.
C10_RejectedStartChangesNothing ==
    [][\A i \in 1..MaxOps :
          (ops[i].pc # "done" /\ ops'[i].result \in {"empty", "rejected"})
              => /\ startToken' = startToken
                 /\ badge' = badge /\ hls' = hls /\ videoSrc' = videoSrc
                 /\ ops'[i].polls = 0 /\ ~HasToken(ops'[i])
                 /\ ops'[i].result = "empty" => ops[i].pc = "idle"
                 /\ \A j \in 1..MaxOps : j # i => ops'[j] = ops[j]]_vars

\* a start was rejected by the backend while another wait holds the
\* current token and is still polling
C10_Witness ==
    \E i, j \in 1..MaxOps :
        /\ ops[i].result = "rejected"
        /\ Waiting(ops[j]) /\ ops[j].token = startToken /\ ops[j].polls >= 1

----------------------------------------------------------------------------
(* Properties of the Frame-Synchronized Overlay Renderer *)

\* |timeline[i].t - t|, i counted from 0
Distance(tl, i, t) == IF tl[i + 1].t >= t THEN tl[i + 1].t - t ELSE t - tl[i + 1].t

Indexes(tl) == 0..(Len(tl) - 1)

\* C11: for every timeline in ascending order and every playback time,
\* findNearestIndex returns the index of an entry that no other entry is
\* nearer to the time than, and it returns -1 exactly for the empty timeline.
C11_NearestEntry ==
    LET i == findNearestIndex(timeline, videoTime) IN
    /\ (i = -1) <=> (timeline = <<>>)
    /\ timeline # <<>> =>
          /\ i \in Indexes(timeline)
          /\ \A j \in Indexes(timeline) :
                Distance(timeline, i, videoTime) <= Distance(timeline, j, videoTime)

\* a seek between two entries has picked the later one, which is nearer
C11_Witness ==
    /\ Len(timeline) = 3
    /\ lastHandler.kind = "seeked"
    /\ timeline[1].t < videoTime
    /\ videoTime < timeline[2].t
    /\ lastIdx = 1
    /\ lastIdx = findNearestIndex(timeline, videoTime)

\* C12: among the entries that are equally nearest to the playback time,
\* findNearestIndex returns the one of the smallest index, also when the
\* timeline holds entries of equal time.
C12_TieGoesToSmallestIndex ==
    LET i == findNearestIndex(timeline, videoTime) IN
    timeline # <<>> =>
        \A j \in Indexes(timeline) :
            j < i => Distance(timeline, j, videoTime) > Distance(timeline, i, videoTime)

\* C13: with a timeline loaded, a tick of the render loop calls drawBoxes
\* exactly when the nearest index differs from lastIdx, pause and seeked
\* always call it, and after each of them lastIdx is the nearest index of the
\* playback time.
C13_TickRedrawsOnChange ==
    [][ timeline' # <<>> =>
          LET idx == findNearestIndex(timeline', videoTime') IN
          /\ lastHandler'.kind = "tick" => (lastHandler'.drew <=> idx # lastIdx)
          /\ lastHandler'.kind \in {"pause", "seeked"} => lastHandler'.drew
          /\ lastHandler'.kind \in {"tick", "pause", "seeked"} => lastIdx' = idx
      ]_videoVars

\* a tick has found the index of the last frame again and has not redrawn
C13_Witness ==
    /\ timeline # <<>>
    /\ lastHandler = [kind |-> "tick", drew |-> FALSE]
    /\ videoTime > 0
    /\ lastIdx = findNearestIndex(timeline, videoTime)
    /\ canvas = timeline[lastIdx + 1].boxes

\* C14: while the overlay is hidden the canvas shows no boxes, whatever
\* handlers run; the toggle leaves the timeline as it is, and hiding and
\* showing again at one playback time brings back the canvas of before.
C14_HiddenOverlayShowsNothing ==
    /\ [](~overlayVisible => canvas = <<>>)
    /\ [](lastHandler.kind = "toggle" /\ overlayVisible /\ hiddenCanvas.valid
             => canvas = hiddenCanvas.canvas)
    /\ [][lastHandler'.kind = "toggle" => timeline' = timeline]_videoVars

\* the overlay was hidden while it showed an entry and shows it again
C14_Witness ==
    /\ lastHandler.kind = "toggle"
    /\ overlayVisible
    /\ hiddenCanvas.valid
    /\ hiddenCanvas.canvas # <<>>
    /\ canvas = hiddenCanvas.canvas
    /\ lastIdx > 0

----------------------------------------------------------------------------
(* Properties of the ROI Polygon Editor *)

\* the points (counted from 1) whose display position is within the hit
\* radius of the press at p
Hits(p) == { i \in 1..Len(roiPts) : InRadius(roiPts[i], p[1], p[2], imgW, imgH) }

\* C15: in edit mode with an image loaded, a press within the hit radius of
\* a point's display position starts a drag of such a point and leaves the
\* points as they are; a press outside every radius appends one point, the
\* press location in native coordinates, and starts no drag.
C15_PressDragsOrAppends ==
    [][ \A p \in PressAt :
          (roiEdit /\ imgW # 0 /\ PointerDown(p[1], p[2])) =>
              IF Hits(p) # {}
              THEN /\ dragIdx' + 1 \in Hits(p)
                   /\ roiPts' = roiPts
              ELSE /\ Len(roiPts') = Len(roiPts) + 1
                   /\ SubSeq(roiPts', 1, Len(roiPts)) = roiPts
                   /\ roiPts'[Len(roiPts')] =
                         Point((p[1] * imgW) \div DispRect.w, (p[2] * imgH) \div DispRect.h)
                   /\ dragIdx' = dragIdx
      ]_photoVars

\* two presses have put two points far from each other, a third press near
\* the second point drags it
C15_Witness ==
    /\ roiEdit
    /\ Len(roiPts) = 2
    /\ dragIdx = 1
    /\ imgLoading = NoFile
    /\ roiPts[1] # roiPts[2]

\* C16: whatever handlers have run, dragIdx is 0 or more only in edit mode
\* and only as the index of a point of the polygon.
C16_DragIndexValid ==
    dragIdx >= 0 => (roiEdit /\ dragIdx < Len(roiPts))

\* the last of three points is being dragged
C16_Witness ==
    /\ dragIdx = 2
    /\ Len(roiPts) = 3
    /\ roiEdit

\* C17: while a drag is on, a further press starts no second drag: dragIdx
\* keeps the index the drag began with and no point is added.
C17_PressDuringDragIgnored ==
    [][ \A p \in PressAt :
          (dragIdx >= 0 /\ PointerDown(p[1], p[2])) =>
              (dragIdx' = dragIdx /\ roiPts' = roiPts)
      ]_photoVars

\* the position (x, y) in native coordinates, each brought into 0 .. size - 1
ClampedNative(p) ==
    LET nx == (p[1] * imgW) \div DispRect.w
        ny == (p[2] * imgH) \div DispRect.h
    IN  Point(IF nx < 0 THEN 0 ELSE IF nx > imgW - 1 THEN imgW - 1 ELSE nx,
              IF ny < 0 THEN 0 ELSE IF ny > imgH - 1 THEN imgH - 1 ELSE ny)

\* C18: a pointer move during a drag puts the dragged point, and no other,
\* at the pointer position in native coordinates, clamped to
\* [0, imgW - 1] x [0, imgH - 1], and keeps the number of points; a move
\* with no drag or outside edit mode changes nothing.
C18_MoveSetsDraggedPoint ==
    [][ \A p \in MoveAt :
          PointerMove(p[1], p[2]) =>
              IF roiEdit /\ dragIdx >= 0
              THEN /\ Len(roiPts') = Len(roiPts)
                   /\ roiPts'[dragIdx + 1] = ClampedNative(p)
                   /\ \A i \in 1..Len(roiPts) : i # dragIdx + 1 => roiPts'[i] = roiPts[i]
                   /\ UNCHANGED <<dragIdx, roiEdit>>
              ELSE UNCHANGED <<roiPts, dragIdx, roiEdit>>
      ]_photoVars

\* a dragged point has been moved off the image and stopped at its last
\* pixel, the other point is where it was put
C18_Witness ==
    /\ roiEdit
    /\ dragIdx = 0
    /\ Len(roiPts) = 2
    /\ roiPts[1] = Point(imgW - 1, imgH - 1)
    /\ roiPts[2] = Point(imgW, 0)

RoiParams == {"roi_enabled", "roi", "roi_format"}

\* a submission has just been made
Submitted == lastForm.file # NoFile

\* C19 as stated: the submission carries the polygon exactly when ROI is
\* enabled and there are 3 points or more, and otherwise it carries no ROI
\* parameter at all.
C19_NoRoiParameterWithoutPolygon ==
    Submitted =>
        /\ ("roi" \in lastForm.params) <=> (roiEnabledChecked /\ Len(roiPts) >= 3)
        /\ ~(roiEnabledChecked /\ Len(roiPts) >= 3) => lastForm.params \cap RoiParams = {}

\* C19, amended: the submission carries the polygon (roi, with roi_format)
\* exactly when ROI is enabled and there are 3 points or more, every point
\* exported as it is; otherwise it carries neither roi nor roi_format, and
\* roi_enabled is sent in both cases, as "true" or "false".
C19_PolygonIffEnabledAndThreePoints ==
    Submitted =>
        LET useRoi == roiEnabledChecked /\ Len(roiPts) >= 3 IN
        /\ ("roi" \in lastForm.params) <=> useRoi
        /\ ("roi_format" \in lastForm.params) <=> useRoi
        /\ "roi_enabled" \in lastForm.params
        /\ lastForm.roi_enabled = IF useRoi THEN "true" ELSE "false"
        /\ useRoi =>
              /\ Len(lastForm.roi) = Len(roiPts)
              /\ \A i \in 1..Len(roiPts) :
                    /\ lastForm.roi[i].x = Frac(roiPts[i].x, imgW)
                    /\ lastForm.roi[i].y = Frac(roiPts[i].y, imgH)

\* three points on one line have been exported
C19_Witness ==
    /\ Submitted
    /\ "roi" \in lastForm.params
    /\ Len(lastForm.roi) = 3
    /\ Len(roiPts) = 3
    /\ roiPts[1].y = roiPts[2].y
    /\ roiPts[2].y = roiPts[3].y
    /\ roiPts[1].x # roiPts[2].x
    /\ roiPts[2].x # roiPts[3].x
    /\ roiPts[1].x # roiPts[3].x

\* the quotient q is in [0, 1]
InUnit(q) == q.den > 0 /\ 0 <= q.num /\ q.num <= q.den

\* C20: every coordinate of an exported polygon is in [0, 1], whatever files
\* were loaded and whatever was edited before.
C20_ExportedRoiInUnitSquare ==
    (Submitted /\ "roi" \in lastForm.params) =>
        \A i \in 1..Len(lastForm.roi) : InUnit(lastForm.roi[i].x) /\ InUnit(lastForm.roi[i].y)

\* C21: a detection submission and its response, successful or not, leave
\* roiPts, roiEdit and dragIdx as they are; roiPts becomes empty only by the
\* ROI clear, by clear-all or by the load of a new file, and the load of a new
\* file always empties it and leaves edit mode.
C21_DetectionKeepsRoi ==
    [][ /\ requests' # requests => UNCHANGED <<roiPts, roiEdit, dragIdx>>
        /\ (roiPts # <<>> /\ roiPts' = <<>>) =>
              \/ ClearRoiClick
              \/ PhotoClearAll
              \/ \E f \in PhotoFiles : PhotoFileChange(f)
        /\ \A f \in PhotoFiles :
              PhotoFileChange(f) => (roiPts' = <<>> /\ roiEdit' = FALSE /\ dragIdx' = -1)
      ]_photoVars

\* a submission has been made in edit mode, in the middle of a drag, and the
\* point, the mode and the drag are still there
C21_Witness ==
    /\ Submitted
    /\ requests # <<>>
    /\ Len(roiPts) = 1
    /\ roiEdit
    /\ dragIdx = 0

----------------------------------------------------------------------------
(* Further properties of the Stream Readiness Controller *)

\* C22: at most one hls.js instance is live at any time.
C22_AtMostOneHlsInstance == hlsLive <= 1

\* C23: while the badge shows the waiting state, a wait that holds the
\* current token is in progress; once every invocation is over the badge is
\* not left at waiting.
C23_WaitBadgeMeansActiveWait ==
    badge.state = "wait" =>
        /\ \E i \in 1..MaxOps : Waiting(ops[i]) /\ ops[i].token = startToken
        /\ ~AllSettled

----------------------------------------------------------------------------
(* Detection results and the selected file *)

\* C24: the boxes shown were detected in the file that is selected now: the
\* response of a request made for a file selected before is not applied.
C24_ResultsBelongToSelectedFile ==
    boxes # NoFile => boxes = file

====
